---- MODULE Spec2Model ----
(***************************************************************************)
(* A model of libsmtp (src/libsmtp.go): the MailMessage builder, its MIME  *)
(* serialisation (build, Bytes) and the SMTP transcript issued by Send.    *)
(*                                                                         *)
(* Text is a TLA+ string.  Byte slices (the body, file contents) are       *)
(* sequences of 0..255.  Strings the code inspects character by character  *)
(* (the server, a file path) are sequences of one-character strings.       *)
(***************************************************************************)
EXTENDS Integers, Sequences, FiniteSets, TLC

VARIABLES
    m,        \* the *MailMessage (NilMessage: the nil pointer)
    ret,      \* the last call: its name, its arguments and what it returned
    calls,    \* the Delivery Client calls the last Send() issued, in order
    bodySet,  \* history: "never" until SetBody or SetBodyBytes is called,
              \* then "empty" until one is called with data, then "data"
    emptyFailed, \* history: a Bytes() or Send() has failed for an empty body
    ops       \* history: the number of calls made on the message

vars == <<m, ret, calls, bodySet, emptyFailed, ops>>

----------------------------------------------------------------------------
(* Bounds of the model. *)

\* the calls made on one message
MaxOps == 4
\* the bytes the body accumulates
MaxBody == 3

----------------------------------------------------------------------------
(* Values. *)

\* Go's nil error
NilError == "<nil>"

\* the nil *MailMessage
NilMessage == [nil |-> TRUE]

\* the default port New falls back to
DefaultPort == 25

\* the default content type
DefaultContentType == "text/plain"

\* a string given as its characters, as the Go string
RECURSIVE Str(_)
Str(cs) == IF cs = <<>> THEN "" ELSE Head(cs) \o Str(Tail(cs))

\* strings.Contains(s, ":") on a string given as its characters
ContainsColon(cs) == \E i \in 1..Len(cs) : cs[i] = ":"

\* strings.Join(elems, sep)
RECURSIVE Join(_, _)
Join(elems, sep) ==
    IF elems = <<>> THEN ""
    ELSE IF Len(elems) = 1 THEN elems[1]
    ELSE elems[1] \o sep \o Join(Tail(elems), sep)

\* filepath.Base on a path given as its characters
RECURSIVE StripTrailingSlashes(_)
StripTrailingSlashes(p) ==
    IF Len(p) > 0 /\ p[Len(p)] = "/"
    THEN StripTrailingSlashes(SubSeq(p, 1, Len(p) - 1))
    ELSE p

RECURSIVE LastSlash(_, _)
LastSlash(p, i) ==
    IF i >= 1 /\ p[i] # "/" THEN LastSlash(p, i - 1) ELSE i

Base(path) ==
    IF path = <<>> THEN "."
    ELSE LET p == StripTrailingSlashes(path)
             i == LastSlash(p, Len(p))
             q == IF i >= 1 THEN SubSeq(p, i + 1, Len(p)) ELSE p
         IN  IF q = <<>> THEN "/" ELSE Str(q)

\* the alphabet of base64.StdEncoding
B64Alphabet ==
    << "A","B","C","D","E","F","G","H","I","J","K","L","M","N","O","P",
       "Q","R","S","T","U","V","W","X","Y","Z","a","b","c","d","e","f",
       "g","h","i","j","k","l","m","n","o","p","q","r","s","t","u","v",
       "w","x","y","z","0","1","2","3","4","5","6","7","8","9","+","/" >>

B64Char(v) == B64Alphabet[(v % 64) + 1]

\* base64.StdEncoding.EncodedLen(n)
EncodedLen(n) == ((n + 2) \div 3) * 4

\* base64.StdEncoding.Encode: three bytes to four characters, "=" padding
RECURSIVE Base64Encode(_)
Base64Encode(b) ==
    IF Len(b) = 0 THEN ""
    ELSE IF Len(b) = 1 THEN
        LET val == b[1] * 65536
        IN  B64Char(val \div 262144) \o B64Char(val \div 4096) \o "=="
    ELSE IF Len(b) = 2 THEN
        LET val == b[1] * 65536 + b[2] * 256
        IN  B64Char(val \div 262144) \o B64Char(val \div 4096)
                \o B64Char(val \div 64) \o "="
    ELSE
        LET val == b[1] * 65536 + b[2] * 256 + b[3]
        IN  B64Char(val \div 262144) \o B64Char(val \div 4096)
                \o B64Char(val \div 64) \o B64Char(val)
                \o Base64Encode(SubSeq(b, 4, Len(b)))

\* m[k] = v on a Go map
MapSet(f, k, v) ==
    [x \in (DOMAIN f) \cup {k} |-> IF x = k THEN v ELSE f[x]]

\* the orders in which a range over a Go map may visit the keys
Orders(keys) ==
    { o \in [1..Cardinality(keys) -> keys] :
        \A i, j \in 1..Cardinality(keys) : i # j => o[i] # o[j] }

----------------------------------------------------------------------------
(* The environment: inputs, the file system, the clock, the SMTP server. *)

\* servers given to New
Servers == { <<>>, <<"h">>, <<"h", ":", "9">> }
\* ports given to New
Ports == { -1, 0, 587 }
\* senders given to New
Senders == { "", "a@x" }
\* recipient lists given to New
RecipientLists == { <<>>, <<"b@x">>, <<"b@x", "c@x">> }
\* what time.Now() prints as
Times == { "t0" }

\* the constructor arguments the checked messages are made with
InitInputs ==
    [ server : { <<"h">>, <<"h", ":", "9">> }, port : { 0 }, from : { "a@x" },
      to : { <<"b@x", "c@x">> }, usetls : BOOLEAN, now : Times ]

\* the files that can be read, with their content
Files ==
    ( <<"/", "a", "/", "x">> :> <<1, 2>> ) @@
    ( <<"y">> :> <<>> )

\* the paths given to AddAttachment
Paths == (DOMAIN Files) \cup { <<>>, <<"/", "n">> }

\* ioutil.ReadFile
ReadFile(path) ==
    IF path \in DOMAIN Files
    THEN [b |-> Files[path], err |-> NilError]
    ELSE [b |-> <<>>,
          err |-> "open " \o Str(path) \o ": no such file or directory"]

\* what utils.RandomBase36() may return
Tokens == { "k3", "z9" }

\* the data given to SetBody
BodyStrings == { <<>>, <<104>> }
\* the data given to SetBodyBytes
BodyBytes == { <<>>, <<105, 255>> }
\* the subjects given to Subject
Subjects == { "s" }
\* the content types given to SetContentType
ContentTypes == { "", "text/html" }

----------------------------------------------------------------------------
(* New *)

NewSameError(server, port, from, to, usetls, now) ==
    IF server = <<>> \/ from = "" \/ Len(to) = 0
    THEN [msg |-> NilMessage, err |-> "SMTP server required"]
    ELSE [msg |->
            [ attachmentBoundaries |-> <<>>,
              attachmentLengths |-> <<>>,
              attachments |-> <<>>,
              body |-> <<>>,
              buf |-> "",
              contentType |-> DefaultContentType,
              from |-> from,
              port |-> IF port <= 0 THEN DefaultPort ELSE port,
              server |-> server,
              subject |-> "libsmtp - " \o now,
              tls |-> usetls,
              to |-> to,
              buildCalled |-> FALSE ],
          err |-> NilError]

New(server, port, from, to, usetls, now) ==
    IF server = <<>>
    THEN [msg |-> NilMessage, err |-> "SMTP server required"]
    ELSE IF from = ""
    THEN [msg |-> NilMessage, err |-> "SMTP sender required"]
    ELSE IF Len(to) = 0
    THEN [msg |-> NilMessage, err |-> "Mail recipient(s) required"]
    ELSE [msg |->
            [ attachmentBoundaries |-> <<>>,
              attachmentLengths |-> <<>>,
              attachments |-> <<>>,
              body |-> <<>>,
              buf |-> "",
              contentType |-> DefaultContentType,
              from |-> from,
              port |-> IF port <= 0 THEN DefaultPort ELSE port,
              server |-> server,
              subject |-> "libsmtp - " \o now,
              tls |-> usetls,
              to |-> to,
              buildCalled |-> FALSE ],
          err |-> NilError]

\* the arguments and results of a call that takes no arguments
NoArgs == [none |-> TRUE]

Returned(op, args, err, out) ==
    [op |-> op, args |-> args, err |-> err, out |-> out]

----------------------------------------------------------------------------
(* AddAttachment, SetBody, SetBodyBytes, SetContentType, Subject *)

AddAttachmentRecordsBeforeRead(msg, pathToFile, token) ==
    IF pathToFile # <<>> THEN
        LET attachmentName == Base(pathToFile)
            r == ReadFile(pathToFile)
            recorded == [msg EXCEPT
                !.attachments =
                    MapSet(msg.attachments, attachmentName, Base64Encode(r.b)),
                !.attachmentLengths =
                    MapSet(msg.attachmentLengths, attachmentName,
                           EncodedLen(Len(r.b))),
                !.attachmentBoundaries =
                    MapSet(msg.attachmentBoundaries, attachmentName, token)]
        IN  [msg |-> recorded, err |-> r.err]
    ELSE [msg |-> msg, err |-> "No attachment specified"]

AddAttachmentRetokensAll(msg, pathToFile, token) ==
    IF pathToFile # <<>> THEN
        LET attachmentName == Base(pathToFile)
            r == ReadFile(pathToFile)
        IN  IF r.err # NilError THEN [msg |-> msg, err |-> r.err]
            ELSE [msg |-> [msg EXCEPT
                      !.attachments =
                          MapSet(msg.attachments, attachmentName, Base64Encode(r.b)),
                      !.attachmentLengths =
                          MapSet(msg.attachmentLengths, attachmentName,
                                 EncodedLen(Len(r.b))),
                      !.attachmentBoundaries =
                          [k \in (DOMAIN msg.attachmentBoundaries)
                                    \cup {attachmentName} |-> token]],
                  err |-> NilError]
    ELSE [msg |-> msg, err |-> "No attachment specified"]

AddAttachment(msg, pathToFile, token) ==
    IF pathToFile # <<>> THEN
        LET attachmentName == Base(pathToFile)
            r == ReadFile(pathToFile)
        IN  IF r.err # NilError THEN [msg |-> msg, err |-> r.err]
            ELSE LET encodedLen == EncodedLen(Len(r.b))
                     encodedAttachment == Base64Encode(r.b)
                 IN  [msg |-> [msg EXCEPT
                          !.attachments =
                              MapSet(msg.attachments, attachmentName, encodedAttachment),
                          !.attachmentLengths =
                              MapSet(msg.attachmentLengths, attachmentName, encodedLen),
                          !.attachmentBoundaries =
                              MapSet(msg.attachmentBoundaries, attachmentName, token)],
                      err |-> NilError]
    ELSE [msg |-> msg, err |-> "No attachment specified"]

SetBody(msg, data) == [msg EXCEPT !.body = msg.body \o data]

SetBodyBytes(msg, data) == [msg EXCEPT !.body = msg.body \o data]

SetContentType(msg, ct) ==
    IF ct # "" THEN [msg EXCEPT !.contentType = ct]
    ELSE [msg EXCEPT !.contentType = DefaultContentType]

Subject(msg, subject) == [msg EXCEPT !.subject = subject]

----------------------------------------------------------------------------
(* build, Bytes *)

\* the first range over attachmentBoundaries: one multipart header per boundary
RECURSIVE BoundaryHeaders(_, _)
BoundaryHeaders(msg, order) ==
    IF order = <<>> THEN ""
    ELSE LET v == msg.attachmentBoundaries[Head(order)]
         IN  "Content-Type: multipart/mixed; boundary=\"" \o v \o "\"\n"
                 \o "--" \o v \o "\n"
                 \o BoundaryHeaders(msg, Tail(order))

\* the second range over attachmentBoundaries: one part per attachment
RECURSIVE AttachmentParts(_, _)
AttachmentParts(msg, order) ==
    IF order = <<>> THEN ""
    ELSE LET k == Head(order)
             v == msg.attachmentBoundaries[k]
         IN  "\n\n--" \o v \o "\n"
                 \o "Content-Type: application/octet-stream; name=\"" \o k \o "\"\n"
                 \o "Content-Description: " \o k \o "\n"
                 \o "Content-Disposition: attachment; filename=\"" \o k
                 \o "\"; size=" \o ToString(msg.attachmentLengths[k]) \o "\n"
                 \o "Content-Transfer-Encoding: base64\n\n"
                 \o msg.attachments[k]
                 \o "\n--" \o v \o "--"
                 \o AttachmentParts(msg, Tail(order))

buildMarksBuiltOnFailure(msg, order1, order2) ==
    IF Len(msg.body) = 0
    THEN [msg |-> [msg EXCEPT !.buildCalled = TRUE],
          err |-> "Message body is empty"]
    ELSE [msg |-> [msg EXCEPT
              !.buf = msg.buf
                  \o "To: " \o Join(msg.to, ",") \o "\n"
                  \o "Subject: " \o msg.subject \o "\n"
                  \o (IF Cardinality(DOMAIN msg.attachments) > 0
                      THEN BoundaryHeaders(msg, order1) ELSE "")
                  \o "Content-Transfer-Encoding: base64\n"
                  \o "MIME-Version: 1.0;\n"
                  \o "Content-Type: " \o msg.contentType
                  \o "; charset=\"utf-8\";\n\n"
                  \o Base64Encode(msg.body)
                  \o (IF Cardinality(DOMAIN msg.attachments) > 0
                      THEN AttachmentParts(msg, order2) ELSE ""),
              !.buildCalled = TRUE],
          err |-> NilError]

\* build(); order1 and order2 are the orders the two ranges over the map take
build(msg, order1, order2) ==
    IF Len(msg.body) = 0
    THEN [msg |-> msg, err |-> "Message body is empty"]
    ELSE LET encodedBody == Base64Encode(msg.body)
             document ==
                 "To: " \o Join(msg.to, ",") \o "\n"
                 \o "Subject: " \o msg.subject \o "\n"
                 \o (IF Cardinality(DOMAIN msg.attachments) > 0
                     THEN BoundaryHeaders(msg, order1) ELSE "")
                 \o "Content-Transfer-Encoding: base64\n"
                 \o "MIME-Version: 1.0;\n"
                 \o "Content-Type: " \o msg.contentType \o "; charset=\"utf-8\";\n\n"
                 \o encodedBody
                 \o (IF Cardinality(DOMAIN msg.attachments) > 0
                     THEN AttachmentParts(msg, order2) ELSE "")
         IN  [msg |-> [msg EXCEPT !.buf = msg.buf \o document,
                                  !.buildCalled = TRUE],
              err |-> NilError]

BytesAlwaysBuilds(msg, order1, order2) ==
    LET b == build(msg, order1, order2)
    IN  [msg |-> b.msg, out |-> b.msg.buf, err |-> b.err]

Bytes(msg, order1, order2) ==
    IF msg.buildCalled
    THEN [msg |-> msg, out |-> msg.buf, err |-> NilError]
    ELSE LET b == build(msg, order1, order2)
         IN  [msg |-> b.msg, out |-> b.msg.buf, err |-> b.err]

----------------------------------------------------------------------------
(* The SMTP server a Send() talks to: what it answers to each step. *)

\* the addresses a server is asked to accept
Addresses == { "b@x", "c@x" }

\* every answer a server can give to the steps of one transcript
AllBehaviours ==
    [ dial : { NilError, "dial tcp: connection refused" },
      ext : BOOLEAN,
      starttls : { NilError, "tls: handshake failure" },
      mail : { NilError, "550 sender rejected" },
      rcpt : { [a \in Addresses |-> IF a \in S THEN "550 no such user " \o a
                                              ELSE NilError] :
               S \in SUBSET Addresses },
      data : { NilError, "554 no valid recipients" },
      write : { NilError, "write: broken pipe" },
      close : { NilError, "552 message too large" } ]

\* the steps a server answers with an error
Failing(srv) ==
    { s \in { "dial", "starttls", "mail", "data", "write", "close" } :
        srv[s] # NilError }
    \cup { a \in Addresses : srv.rcpt[a] # NilError }

\* the servers the checked transcripts run against: those failing at most
\* one step, and those failing every step
ServerBehaviours ==
    { srv \in AllBehaviours :
        Cardinality(Failing(srv)) <= 1
        \/ Cardinality(Failing(srv)) = 6 + Cardinality(Addresses) }

\* a Delivery Client call: the function, its argument, what it answered
Call(fn, arg, res) == [fn |-> fn, arg |-> arg, res |-> res]

\* the answer of a call whose result Send() discards
Discarded == "discarded"

\* ok, _ := c.Extension("STARTTLS"), as text
Advertised(srv) == IF srv.ext THEN "true" ELSE "false"

\* what Send() returns, and the calls it issued
Sent(msg, err, cs) == [msg |-> msg, err |-> err, calls |-> cs]

\* c.Reset(); c.Quit(); return err
Abort(msg, err, cs) ==
    Sent(msg, err,
         cs \o << Call("Reset", "", Discarded), Call("Quit", "", Discarded) >>)

----------------------------------------------------------------------------
(* Send, from its last step to its first *)

SendDataNoQuitOnClose(msg, srv, cs) ==
    LET c1 == cs \o << Call("Data", "", srv.data) >>
        c2 == c1 \o << Call("Write", msg.buf, srv.write) >>
        c3 == c2 \o << Call("Close", "", srv.close) >>
    IN  IF srv.data # NilError THEN Abort(msg, srv.data, c1)
        ELSE IF srv.write # NilError THEN Abort(msg, srv.write, c2)
        ELSE IF srv.close # NilError THEN Sent(msg, srv.close, c3)
        ELSE Sent(msg, NilError, c3 \o << Call("Quit", "", Discarded) >>)

\* w, err := c.Data(); w.Write(m.buf.Bytes()); w.Close(); c.Quit()
SendData(msg, srv, cs) ==
    LET c1 == cs \o << Call("Data", "", srv.data) >>
        c2 == c1 \o << Call("Write", msg.buf, srv.write) >>
        c3 == c2 \o << Call("Close", "", srv.close) >>
    IN  IF srv.data # NilError THEN Abort(msg, srv.data, c1)
        ELSE IF srv.write # NilError THEN Abort(msg, srv.write, c2)
        ELSE IF srv.close # NilError THEN Abort(msg, srv.close, c3)
        ELSE Sent(msg, NilError, c3 \o << Call("Quit", "", Discarded) >>)

RECURSIVE SendRcptSkipsRejected(_, _, _, _)
SendRcptSkipsRejected(msg, srv, cs, i) ==
    IF i > Len(msg.to) THEN SendData(msg, srv, cs)
    ELSE LET v == msg.to[i]
         IN  SendRcptSkipsRejected(msg, srv,
                                   cs \o << Call("Rcpt", v, srv.rcpt[v]) >>, i + 1)

\* for _, v := range m.to { c.Rcpt(v) }, from the i-th recipient on
RECURSIVE SendRcpt(_, _, _, _)
SendRcpt(msg, srv, cs, i) ==
    IF i > Len(msg.to) THEN SendData(msg, srv, cs)
    ELSE LET v == msg.to[i]
             c1 == cs \o << Call("Rcpt", v, srv.rcpt[v]) >>
         IN  IF srv.rcpt[v] # NilError THEN Abort(msg, srv.rcpt[v], c1)
             ELSE SendRcpt(msg, srv, c1, i + 1)

\* c.Mail(m.from)
SendMail(msg, srv, cs) ==
    LET c1 == cs \o << Call("Mail", msg.from, srv.mail) >>
    IN  IF srv.mail # NilError THEN Abort(msg, srv.mail, c1)
        ELSE SendRcpt(msg, srv, c1, 1)

SendStartTLSFallsBack(msg, srv, cs) ==
    IF msg.tls THEN
        LET c1 == cs \o << Call("Extension", "STARTTLS", Advertised(srv)) >>
        IN  IF srv.ext THEN
                SendMail(msg, srv,
                         c1 \o << Call("StartTLS", Str(msg.server), srv.starttls) >>)
            ELSE SendMail(msg, srv, c1)
    ELSE SendMail(msg, srv, cs)

SendStartTLSUnconditional(msg, srv, cs) ==
    IF msg.tls THEN
        LET c1 == cs \o << Call("Extension", "STARTTLS", Advertised(srv)) >>
            c2 == c1 \o << Call("StartTLS", Str(msg.server), srv.starttls) >>
        IN  IF srv.starttls # NilError THEN Abort(msg, srv.starttls, c2)
            ELSE SendMail(msg, srv, c2)
    ELSE SendMail(msg, srv, cs)

\* if m.tls { if ok, _ := c.Extension("STARTTLS"); ok { c.StartTLS(...) } }
SendStartTLS(msg, srv, cs) ==
    IF msg.tls THEN
        LET c1 == cs \o << Call("Extension", "STARTTLS", Advertised(srv)) >>
        IN  IF srv.ext THEN
                LET c2 == c1 \o << Call("StartTLS", Str(msg.server), srv.starttls) >>
                IN  IF srv.starttls # NilError THEN Abort(msg, srv.starttls, c2)
                    ELSE SendMail(msg, srv, c2)
            ELSE SendMail(msg, srv, c1)
    ELSE SendMail(msg, srv, cs)

\* the address Send() dials
SmtpUri(msg) ==
    IF ContainsColon(msg.server) THEN Str(msg.server)
    ELSE Str(msg.server) \o ":" \o ToString(msg.port)

\* Send(); order1 and order2 as for build, srv the server's answers
Send(msg, srv, order1, order2) ==
    LET b == build(msg, order1, order2)
    IN  IF b.err # NilError THEN Sent(b.msg, b.err, <<>>)
        ELSE LET c1 == << Call("Dial", SmtpUri(b.msg), srv.dial) >>
             IN  IF srv.dial # NilError THEN Sent(b.msg, srv.dial, c1)
                 ELSE SendStartTLS(b.msg, srv, c1)

----------------------------------------------------------------------------
(* The calls a program makes *)

NewCall ==
    /\ ret.op = "none"
    /\ \E server \in Servers, port \in Ports, from \in Senders,
          to \in RecipientLists, usetls \in BOOLEAN, now \in Times :
          LET r == New(server, port, from, to, usetls, now)
          IN  /\ m' = r.msg
              /\ ret' = Returned("New",
                                 [server |-> server, port |-> port, from |-> from,
                                  to |-> to, usetls |-> usetls, now |-> now],
                                 r.err, "")
    /\ UNCHANGED <<calls, bodySet, emptyFailed, ops>>

\* bodySet after a SetBody or SetBodyBytes call with this data
BodySetAfter(data) ==
    IF Len(data) > 0 \/ bodySet = "data" THEN "data" ELSE "empty"

\* emptyFailed after a Bytes() or Send() that returned err
EmptyFailedAfter(err) == emptyFailed \/ err = "Message body is empty"

\* a message exists and the run may go on
Live == m # NilMessage /\ ops < MaxOps

AddAttachmentCall ==
    /\ Live
    /\ \E pathToFile \in Paths, token \in Tokens :
          LET r == AddAttachment(m, pathToFile, token)
          IN  /\ m' = r.msg
              /\ ret' = Returned("AddAttachment",
                                 [pathToFile |-> pathToFile, token |-> token],
                                 r.err, "")
    /\ calls' = <<>>
    /\ ops' = ops + 1
    /\ UNCHANGED <<bodySet, emptyFailed>>

SetBodyCall ==
    /\ Live
    /\ \E data \in BodyStrings :
          /\ Len(m.body) + Len(data) <= MaxBody
          /\ m' = SetBody(m, data)
          /\ bodySet' = BodySetAfter(data)
          /\ ret' = Returned("SetBody", [data |-> data], NilError, "")
    /\ calls' = <<>>
    /\ ops' = ops + 1
    /\ UNCHANGED emptyFailed

SetBodyBytesCall ==
    /\ Live
    /\ \E data \in BodyBytes :
          /\ Len(m.body) + Len(data) <= MaxBody
          /\ m' = SetBodyBytes(m, data)
          /\ bodySet' = BodySetAfter(data)
          /\ ret' = Returned("SetBodyBytes", [data |-> data], NilError, "")
    /\ calls' = <<>>
    /\ ops' = ops + 1
    /\ UNCHANGED emptyFailed

SetContentTypeCall ==
    /\ Live
    /\ \E ct \in ContentTypes :
          /\ m' = SetContentType(m, ct)
          /\ ret' = Returned("SetContentType", [ct |-> ct], NilError, "")
    /\ calls' = <<>>
    /\ ops' = ops + 1
    /\ UNCHANGED <<bodySet, emptyFailed>>

SubjectCall ==
    /\ Live
    /\ \E subject \in Subjects :
          /\ m' = Subject(m, subject)
          /\ ret' = Returned("Subject", [subject |-> subject], NilError, "")
    /\ calls' = <<>>
    /\ ops' = ops + 1
    /\ UNCHANGED <<bodySet, emptyFailed>>

BytesCall ==
    /\ Live
    /\ \E order1, order2 \in Orders(DOMAIN m.attachmentBoundaries) :
          LET r == Bytes(m, order1, order2)
          IN  /\ m' = r.msg
              /\ ret' = Returned("Bytes", NoArgs, r.err, r.out)
              /\ emptyFailed' = EmptyFailedAfter(r.err)
    /\ calls' = <<>>
    /\ ops' = ops + 1
    /\ UNCHANGED bodySet

SendCall ==
    /\ Live
    /\ \E srv \in ServerBehaviours,
          order1, order2 \in Orders(DOMAIN m.attachmentBoundaries) :
          LET r == Send(m, srv, order1, order2)
          IN  /\ m' = r.msg
              /\ ret' = Returned("Send", NoArgs, r.err, "")
              /\ calls' = r.calls
              /\ emptyFailed' = EmptyFailedAfter(r.err)
    /\ ops' = ops + 1
    /\ UNCHANGED bodySet

----------------------------------------------------------------------------
(* Specifications *)

\* before New has been called
InitNew ==
    /\ m = NilMessage
    /\ ret = Returned("none", NoArgs, NilError, "")
    /\ calls = <<>>
    /\ bodySet = "never"
    /\ emptyFailed = FALSE
    /\ ops = 0

NextNew == NewCall

\* the constructor alone, over all its inputs
SpecNew == InitNew /\ [][NextNew]_vars

\* a message New has just returned
Init ==
    /\ \E i \in InitInputs :
          LET r == New(i.server, i.port, i.from, i.to, i.usetls, i.now)
          IN  /\ m = r.msg
              /\ ret = Returned("New", i, r.err, "")
    /\ calls = <<>>
    /\ bodySet = "never"
    /\ emptyFailed = FALSE
    /\ ops = 0

Next ==
    \/ AddAttachmentCall
    \/ SetBodyCall
    \/ SetBodyBytesCall
    \/ SetContentTypeCall
    \/ SubjectCall
    \/ BytesCall
    \/ SendCall

\* the calls on one message, in any order
Spec == Init /\ [][Next]_vars

----------------------------------------------------------------------------
(* Properties *)

\* the last call was op
Last(op) == ret.op = op

\* Send() issued a call of fn
Issued(fn) == \E i \in 1..Len(calls) : calls[i].fn = fn

\* the last Send() got a connection from Dial
Dialled ==
    Last("Send") /\ Len(calls) > 0
        /\ calls[1].fn = "Dial" /\ calls[1].res = NilError

\* the serialisation of msg's present fields into an empty buffer
Fresh(msg, order1, order2) ==
    build([msg EXCEPT !.buf = "", !.buildCalled = FALSE], order1, order2).msg.buf

(* C1: once the message is built, every call other than Send() leaves the   *)
(* serialized buffer as it is, and every Bytes() succeeds and returns that  *)
(* buffer: repeated Bytes() calls, with SetBody, SetBodyBytes, Subject,     *)
(* SetContentType or AddAttachment between them, return identical bytes.    *)
C1_BytesIdempotent ==
    [][ (m.buildCalled /\ ret'.op # "Send") =>
            /\ m'.buf = m.buf
            /\ m'.buildCalled
            /\ ret'.op = "Bytes" => (ret'.err = NilError /\ ret'.out = m.buf) ]_vars

\* a Bytes() that returned the bytes serialised before the subject was set
C1_Witness ==
    /\ Last("Bytes") /\ ret.err = NilError
    /\ m.subject = "s" /\ DOMAIN m.attachments = {}
    /\ ret.out = Fresh([m EXCEPT !.subject = "libsmtp - t0"], <<>>, <<>>)
    /\ ret.out # Fresh(m, <<>>, <<>>)

(* C2: the document is built at most once: once the message is built, no    *)
(* call changes the serialized buffer, and a Send() writes to the server    *)
(* the bytes of that first serialisation.                                   *)
C2_BuiltAtMostOnce ==
    [][ m.buildCalled =>
            /\ m'.buf = m.buf
            /\ \A i \in 1..Len(calls') :
                   calls'[i].fn = "Write" => calls'[i].arg = m.buf ]_vars

(* C3: New succeeds when server, sender and recipients are all non-empty;   *)
(* otherwise it returns the nil message and the error of the first missing  *)
(* field, server before sender before recipients, each error different.     *)
C3_NewValidates ==
    Last("New") =>
        LET a == ret.args
        IN  /\ (a.server # <<>> /\ a.from # "" /\ Len(a.to) > 0) =>
                   /\ ret.err = NilError
                   /\ m # NilMessage
                   /\ m.server = a.server /\ m.from = a.from /\ m.to = a.to
                   /\ m.tls = a.usetls
            /\ a.server = <<>> =>
                   (m = NilMessage /\ ret.err = "SMTP server required")
            /\ (a.server # <<>> /\ a.from = "") =>
                   (m = NilMessage /\ ret.err = "SMTP sender required")
            /\ (a.server # <<>> /\ a.from # "" /\ Len(a.to) = 0) =>
                   (m = NilMessage /\ ret.err = "Mail recipient(s) required")
            /\ (ret.err # NilError) =>
                   (a.server = <<>> \/ a.from = "" \/ Len(a.to) = 0)

\* a New that failed for the sender although the recipients were missing too
C3_Witness ==
    /\ Last("New")
    /\ ret.args.server # <<>> /\ ret.args.from = "" /\ Len(ret.args.to) = 0
    /\ ret.err = "SMTP sender required"
    /\ m = NilMessage

(* C4, as claimed: Bytes() on an empty body fails with the empty-body       *)
(* error, writes nothing and leaves the message unbuilt; after at least one *)
(* SetBody or SetBodyBytes call Bytes() succeeds.                           *)
C4_AsClaimed ==
    Last("Bytes") =>
        /\ Len(m.body) = 0 =>
               /\ ret.err = "Message body is empty"
               /\ ret.out = "" /\ m.buf = "" /\ ~m.buildCalled
        /\ bodySet # "never" => ret.err = NilError

(* C4, amended: Bytes() on an empty body fails with the empty-body error,   *)
(* writes nothing and leaves the message unbuilt; after at least one        *)
(* SetBody or SetBodyBytes call with non-empty data Bytes() succeeds, also  *)
(* when an earlier Bytes() or Send() failed for an empty body.              *)
C4_EmptyBodyFails ==
    Last("Bytes") =>
        /\ Len(m.body) = 0 =>
               /\ ret.err = "Message body is empty"
               /\ ret.out = "" /\ m.buf = "" /\ ~m.buildCalled
        /\ bodySet = "data" =>
               (ret.err = NilError /\ m.buildCalled /\ ret.out = m.buf
                    /\ m.buf # "")

\* a Bytes() that succeeded after an earlier build had failed for no body
C4_Witness ==
    /\ Last("Bytes") /\ ret.err = NilError
    /\ emptyFailed /\ bodySet = "data"

\* the steps of the transcript that can fail the Send() after Dial
AbortingSteps == { "StartTLS", "Mail", "Rcpt", "Data", "Write", "Close" }

(* C5: once Dial has returned a connection, Send() ends with Quit: after a  *)
(* failed StartTLS, Mail, Rcpt, Data, Write or Close it calls Reset and     *)
(* then Quit and returns that error; on success Quit follows Close.         *)
C5_SessionClosed ==
    Dialled =>
        LET n == Len(calls)
        IN  /\ calls[n].fn = "Quit"
            /\ \A i \in 1..(n - 1) : calls[i].fn # "Quit"
            /\ ret.err # NilError =>
                   /\ n >= 4
                   /\ calls[n - 1].fn = "Reset"
                   /\ calls[n - 2].fn \in AbortingSteps
                   /\ calls[n - 2].res = ret.err
            /\ ret.err = NilError =>
                   (calls[n - 1].fn = "Close" /\ calls[n - 1].res = NilError)
            /\ \A i \in 1..n :
                   (calls[i].fn \in AbortingSteps /\ calls[i].res # NilError) =>
                       (i = n - 2 /\ ret.err = calls[i].res)

\* a Send() whose Close failed, and was followed by Reset and Quit
C5_Witness ==
    /\ Dialled /\ ret.err = "552 message too large"
    /\ Len(calls) >= 3
    /\ calls[Len(calls) - 2].fn = "Close"
    /\ calls[Len(calls) - 1].fn = "Reset"
    /\ calls[Len(calls)].fn = "Quit"

\* the transcript steps of the last Send(), without Extension, Reset and Quit
Steps ==
    SelectSeq(calls, LAMBDA c : c.fn \in ({ "Dial" } \cup AbortingSteps))

\* the whole transcript of a Send() of m, as function and argument
Transcript(withTLS) ==
    << [fn |-> "Dial", arg |-> SmtpUri(m)] >>
        \o (IF withTLS THEN << [fn |-> "StartTLS", arg |-> Str(m.server)] >>
            ELSE <<>>)
        \o << [fn |-> "Mail", arg |-> m.from] >>
        \o [i \in 1..Len(m.to) |-> [fn |-> "Rcpt", arg |-> m.to[i]]]
        \o << [fn |-> "Data", arg |-> ""],
              [fn |-> "Write", arg |-> m.buf],
              [fn |-> "Close", arg |-> ""] >>

(* C6: Send() issues Dial, StartTLS if any, Mail(sender), Rcpt for each     *)
(* recipient in list order, Data, Write, Close, in this order, and stops at *)
(* the first step that fails, returning its error unchanged; a failed build *)
(* issues no call at all.                                                   *)
C6_TranscriptOrder ==
    Last("Send") =>
        /\ Len(m.body) = 0 =>
               (calls = <<>> /\ ret.err = "Message body is empty")
        /\ Len(m.body) > 0 =>
               LET expected == Transcript(Issued("StartTLS"))
                   k == Len(Steps)
               IN  /\ k >= 1 /\ k <= Len(expected)
                   /\ \A i \in 1..k :
                          /\ Steps[i].fn = expected[i].fn
                          /\ Steps[i].arg = expected[i].arg
                   /\ \A i \in 1..(k - 1) : Steps[i].res = NilError
                   /\ ret.err = Steps[k].res
                   /\ ret.err = NilError => k = Len(expected)
                   /\ Steps[1].res # NilError => calls = << calls[1] >>

\* a Send() whose first recipient was rejected: no second Rcpt, no Data
C6_Witness ==
    /\ Last("Send") /\ ret.err = "550 no such user b@x"
    /\ Len(m.to) = 2
    /\ \A i \in 1..Len(calls) :
           /\ calls[i].fn = "Rcpt" => calls[i].arg = "b@x"
           /\ calls[i].fn # "Data"

(* C7: when StartTLS fails, Send() returns that error and issues no Mail,   *)
(* Rcpt, Data or Write: there is no fallback to unencrypted delivery.       *)
C7_TLSFailureFatal ==
    Last("Send") =>
        \A i \in 1..Len(calls) :
            (calls[i].fn = "StartTLS" /\ calls[i].res # NilError) =>
                /\ ret.err = calls[i].res
                /\ ~Issued("Mail") /\ ~Issued("Rcpt")
                /\ ~Issued("Data") /\ ~Issued("Write")

\* a Send() with useTLS on a server that advertised STARTTLS and failed it
C7_Witness ==
    /\ Dialled /\ m.tls
    /\ ret.err = "tls: handshake failure"
    /\ \E i \in 1..Len(calls) : calls[i].fn = "Extension" /\ calls[i].res = "true"
    /\ Issued("StartTLS")

(* C8, as claimed: the boundary token recorded for an attachment name never *)
(* changes once assigned, whatever is called on the message.                *)
C8_AsClaimed ==
    [][ \A k \in DOMAIN m.attachmentBoundaries :
            /\ k \in DOMAIN m'.attachmentBoundaries
            /\ m'.attachmentBoundaries[k] = m.attachmentBoundaries[k] ]_vars

(* C8, amended: the boundary token recorded for an attachment name stays    *)
(* recorded, and changes only by a successful AddAttachment of a file with  *)
(* that same name, which records the token generated by that call.          *)
C8_BoundaryStable ==
    [][ \A k \in DOMAIN m.attachmentBoundaries :
            /\ k \in DOMAIN m'.attachmentBoundaries
            /\ m'.attachmentBoundaries[k] # m.attachmentBoundaries[k] =>
                   /\ ret'.op = "AddAttachment" /\ ret'.err = NilError
                   /\ Base(ret'.args.pathToFile) = k
                   /\ m'.attachmentBoundaries[k] = ret'.args.token ]_vars

\* two attachments with different tokens, the second added after the first,
\* on a built message
C8_Witness ==
    /\ DOMAIN m.attachmentBoundaries = { "x", "y" }
    /\ m.attachmentBoundaries["x"] # m.attachmentBoundaries["y"]
    /\ Last("Bytes") /\ m.buildCalled

(* C9: an AddAttachment of the empty path or of an unreadable file returns  *)
(* an error and leaves the message as it was.                               *)
C9_FailedAttachmentNoEffect ==
    [][ ret'.op = "AddAttachment" =>
            /\ (ret'.args.pathToFile = <<>>
                    \/ ret'.args.pathToFile \notin DOMAIN Files)
                   => ret'.err # NilError
            /\ ret'.err # NilError => m' = m ]_vars

\* a failed AddAttachment on a message that holds an attachment
C9_Witness ==
    /\ Last("AddAttachment") /\ ret.err # NilError
    /\ ret.args.pathToFile # <<>>
    /\ DOMAIN m.attachments = { "x" }
    /\ m.attachments["x"] = "AQI="
    /\ m.attachmentLengths["x"] = 4

(* C10: Send() attempts StartTLS exactly when useTLS is set and the server  *)
(* advertises STARTTLS; with useTLS set and no STARTTLS advertised it goes  *)
(* on to Mail on the unencrypted connection and reports no error for it.    *)
C10_StartTLSWhenAdvertised ==
    Dialled =>
        LET asked == Issued("Extension")
            advertised ==
                \E i \in 1..Len(calls) :
                    calls[i].fn = "Extension" /\ calls[i].res = "true"
        IN  /\ asked <=> m.tls
            /\ asked => (calls[2].fn = "Extension" /\ calls[2].arg = "STARTTLS")
            /\ Issued("StartTLS") <=> (m.tls /\ advertised)
            /\ Issued("StartTLS") => calls[3].fn = "StartTLS"
            /\ (m.tls /\ ~advertised) =>
                   /\ calls[3].fn = "Mail"
                   /\ ret.err # NilError =>
                          \E i \in 3..Len(calls) :
                              calls[i].fn \in AbortingSteps
                                  /\ calls[i].res = ret.err

\* a Send() with useTLS that delivered the message without StartTLS
C10_Witness ==
    /\ Dialled /\ m.tls /\ ret.err = NilError
    /\ ~Issued("StartTLS")
    /\ \E i \in 1..Len(calls) : calls[i].fn = "Write" /\ calls[i].arg = m.buf

====
